---- MODULE Spec2Model ----
(***************************************************************************)
(* Model of the SEROTONYL landing page script: the pendulum lamp, the      *)
(* shared mood state and the hum synthesizer (setupLamp), together with    *)
(* the other page systems that read the mood state.                        *)
(*                                                                         *)
(* Numbers are fixed point.  The pendulum's theta (rad) and omega (rad/s)   *)
(* carry a factor Fine; other angles, the mood scalars, random draws and   *)
(* the pointer velocity (px/ms) carry a factor Scale; pointer positions    *)
(* are whole pixels; time is in whole milliseconds.  Division truncates    *)
(* toward zero (Div), so that the arithmetic is symmetric about zero as    *)
(* the floating point original is.                                         *)
(***************************************************************************)
EXTENDS Integers, Sequences, FiniteSets, TLC

Scale == 10000
Fine == 1000000
\* units of Fine in one unit of Scale
Sub == Fine \div Scale

\* ---------------------------------------------------------------- bounds
MaxSteps == 4
MaxSwing == 6

\* ------------------------------------------------------ program constants
MAX == 720000
OMEGA_MAX == 3600000
BASE_L == 182
BASE_PROXIMITY == 160
BASE_NEAR == 200
\* grav = 10.4 in tenths, damp = 0.92 in hundredths
GRAV == 104
DAMP == 92
DT_CAP_MS == 30
ANX_RATE_PCT == 6
CAM_RATE_PCT == 12
GRAB_BLEND_PCT == 85
PV_MAX == 13500
BLACKOUT_ANX == 6800
BLACKOUT_P == 120

\* layout the page is run with: the lamp's pivot and the window width
PivotX == 400
PivotY == 0
InnerWidth == 800

\* ------------------------------------------------------------ arithmetic
Abs(x) == IF x < 0 THEN -x ELSE x
Min(a, b) == IF a < b THEN a ELSE b
Max(a, b) == IF a > b THEN a ELSE b
Sign(x) == IF x > 0 THEN 1 ELSE IF x < 0 THEN -1 ELSE 0

\* the quotient a / b truncated toward zero (b > 0)
Div(a, b) == IF a >= 0 THEN a \div b ELSE -((-a) \div b)

clamp(v, a, b) == Max(a, Min(b, v))

\* lerp with the weight t given in hundredths
lerp(a, b, pct) == a + Div((b - a) * pct, 100)

RECURSIVE SqrtIter(_, _, _)
SqrtIter(n, lo, hi) ==
    IF lo >= hi THEN lo
    ELSE LET mid == (lo + hi + 1) \div 2
         IN IF mid * mid <= n THEN SqrtIter(n, mid, hi)
            ELSE SqrtIter(n, lo, mid - 1)

\* floor of the square root, for 0 <= n < 2^30
ISqrt(n) == SqrtIter(n, 0, 32767)

Hypot(dx, dy) == ISqrt(dx * dx + dy * dy)

Pi == 31416
HalfPi == 15708

\* the Taylor polynomial of the sine up to x^7, from x, x^2 and x^3
SinSeries(x, x2, x3) ==
    LET x5 == Div(x3 * x2, Scale)
    IN x - Div(x3, 6) + Div(x5, 120)
         - Div(Div(Div(x5, 10) * x2, Scale \div 10), 5040)

\* sine of an angle in [-Pi/2, Pi/2]
SinCore(x) ==
    LET x2 == Div(x * x, Scale)
    IN SinSeries(x, x2, Div(x2 * x, Scale))

\* an angle in [-Pi, Pi) brought into [-Pi/2, Pi/2] with its sine kept
SinFold(y) ==
    IF y > HalfPi THEN Pi - y
    ELSE IF y < -HalfPi THEN -Pi - y
    ELSE y

Sin(x) == SinCore(SinFold(((x + Pi) % (2 * Pi)) - Pi))

Cos(x) == Sin(x + HalfPi)

\* the sine of the pendulum angle, |x| <= MAX, both with the factor Fine: the
\* Taylor polynomial up to x^7 with the powers scaled before they are
\* multiplied (h is x with the factor Scale)
SinFineSeries(x, x2, x3) ==
    LET x5 == Div(Div(x3, 10) * Div(x2, 10), Scale)
    IN x - Div(x3, 6) + Div(x5, 120)
         - Div(Div(Div(x5, 10) * Div(x2, 10), Scale), 5040)

SinFinePowers(x, h, x2) ==
    SinFineSeries(x, x2, Div(Div(x2, 10) * h, 1000))

SinFineAt(x, h) == SinFinePowers(x, h, Div(h * h, Sub))

SinFine(x) == SinFineAt(x, Div(x, Sub))

\* a pendulum angle with the factor Scale
Coarse(th) == Div(th, Sub)

\* atan(q) for a ratio q in [0, 1] (scaled): the polynomial
\* (Pi/4) q - q (q - 1) (0.2447 + 0.0663 q), within 0.0015 rad of the arctangent
AtanUnit(q) ==
    Div(7854 * q, Scale)
      + Div(Div(q * (Scale - q), Scale) * (2447 + Div(663 * q, Scale)), Scale)

\* Math.atan2(a, b) for a >= 0: the angle of the point (b, a), in [0, Pi]
Atan2(a, b) ==
    IF a = 0 THEN (IF b >= 0 THEN 0 ELSE Pi)
    ELSE IF b = 0 THEN HalfPi
    ELSE LET nb == Abs(b)
             acute == IF a <= nb THEN AtanUnit(Div(a * Scale, nb))
                      ELSE HalfPi - AtanUnit(Div(nb * Scale, a))
         IN IF b > 0 THEN acute ELSE Pi - acute

\* ------------------------------------------------------------------ state
VARIABLES
    now,            \* performance.now(), ms
    theta, omega,   \* the pendulum
    grabbing, grabLastT, grabLastTheta,
    held,           \* the pointer that went down on the hit region is still down
    captured,       \* the hit region holds the pointer capture
    relKick,        \* what the last endGrab added to omega before its clamp
    px, py, pvx, pvy, lastPtT,      \* the tracked pointer
    lastT,          \* time of the previous frame
    anxTarget,      \* anxTarget of the previous frame
    frameScheduled, \* a requestAnimationFrame(frame) callback is pending
    lx, ly,         \* centre of the logo's box, in hundredths of a pixel
    beamAlong, beamCross,   \* along and vx*dirY - vy*dirX of the last frame
    vis,            \* vis of the last frame, to four decimals
    visPos,         \* vis of the last frame was above 0
    logoVis,        \* --logoVis, in thousandths
    logoJx, logoJy, \* --logoJx and --logoJy, in hundredths of a pixel
    anx, camx, camy, blackoutUntil, spikeUntil, rippleOff,
    audioStarted, audio,            \* state.audio: 0 is null, else the context's number
    hasAC,          \* window.AudioContext || window.webkitAudioContext exists
    acCalls,        \* invocations of the AudioContext constructor
    oscStarts, noiseStarts,         \* successful osc.start() / noise.start() calls
    humCaught,      \* the catch block of ensureHum has run
    ctxState,       \* state of the context state.audio refers to
    masterTarget, oscFreqTarget, noiseGainTarget,  \* last setTargetAtTime targets
    audioOps,       \* setTargetAtTime calls issued so far
    cbChecked, storedPref,          \* the ripple checkbox and its stored preference
    glitchFrames, dustLast, dustOp, \* the dust canvas
    ptX, ptY,       \* a dust particle, in hundredths of a pixel
    tearing,        \* the last draw() painted tearing, scanlines and blocks
    wobbleBase, turbBF, dispScale,  \* the wobble filter
    doorHover, doorJx, doorJy, doorJr,  \* a door rig
    doorOpen,       \* the doors that carry the class is-open
    tapTarget,      \* the door the last touch or click landed on, 0 for none
    tapPrevented,   \* the last touchstart had preventDefault() called on it
    prefersReduce,  \* bots page: (prefers-reduced-motion: reduce) matches
    dlgOpen,        \* the case dialog has the attribute open
    dlgInstance,    \* how many times the dialog has been opened
    isClosing,      \* setupCases' isClosing
    closingClass,   \* the dialog carries the class closing
    endL, cancelL,  \* the close requests whose once-listener for animationend,
                    \* animationcancel is still registered on the dialog
    timers,         \* pending fallback timers: << request, ms left >>
    anim,           \* the dialog's closing animation: "none" or "running"
    cancelPending,  \* an animationcancel event of the dialog waits for dispatch
    closer,         \* the close request whose code closed the dialog last
    index,          \* music page: the track index, in halves (2 is track 1)
    deckTrack,      \* the index whose title and meta the deck shows
    srcTrack,       \* the index whose file is audio.src
    threw,          \* the last handler ended in a TypeError
    canWebAudio,    \* the page can build an AudioContext
    acState,        \* AC.state, "none" while AC is null
    paused,         \* audio.paused
    started,        \* the audio element is playing
    awaitResume,    \* play() calls waiting for AC.resume()
    awaitStart,     \* play() calls waiting for the promise of audio.play()
    playEvents,     \* "play" events queued on the audio element
    raf,            \* music.js' raf
    frames,         \* handles of the animation frame callbacks scheduled
    rafNext,        \* the handle requestAnimationFrame returns next
    quiet,          \* the stop button or "ended" came after the last play
    op,             \* the handler that ran last
    steps           \* handlers run so far

gestureVars == <<held, captured, relKick>>
lampVars == <<theta, omega, grabbing, grabLastT, grabLastTheta, gestureVars>>
ptrVars == <<px, py, pvx, pvy, lastPtT>>
moodVars == <<anx, camx, camy, blackoutUntil, spikeUntil, rippleOff>>
humVars == <<audioStarted, audio, acCalls, oscStarts, noiseStarts, humCaught>>
graphVars == <<ctxState, masterTarget, oscFreqTarget, noiseGainTarget, audioOps>>

rippleVars == <<cbChecked, storedPref>>
dustVars == <<glitchFrames, dustLast, dustOp, ptX, ptY, tearing>>
wobbleVars == <<wobbleBase, turbBF, dispScale>>
tapVars == <<doorOpen, tapTarget, tapPrevented>>
doorVars == <<doorHover, doorJx, doorJy, doorJr, tapVars>>
pageVars == <<rippleVars, dustVars, wobbleVars, doorVars>>

beamVars == <<beamAlong, beamCross, vis, visPos, logoVis, logoJx, logoJy>>
frameVars == <<lastT, anxTarget, frameScheduled, beamVars>>
envVars == <<hasAC, lx, ly>>

lampPage == <<now, lampVars, ptrVars, frameVars, moodVars, humVars, envVars,
              graphVars, pageVars>>

caseVars == <<prefersReduce, dlgOpen, dlgInstance, isClosing, closingClass,
              endL, cancelL, timers, anim, cancelPending, closer>>

trackVars == <<index, deckTrack, srcTrack, threw>>
audioVars == <<canWebAudio, acState, paused, started, awaitResume, awaitStart,
               playEvents>>
loopVars == <<raf, frames, rafNext>>
deckVars == <<trackVars, audioVars, loopVars, quiet>>

vars == <<lampPage, caseVars, deckVars, op, steps>>

\* ------------------------------------------------------------ lamp: geometry
LampScale == 1
scaledL == BASE_L * LampScale
scaledProximity == BASE_PROXIMITY * LampScale
scaledNear == BASE_NEAR * LampScale

BulbX(th) == PivotX + Div(Sin(Coarse(th)) * scaledL, Scale)
BulbY(th) == PivotY + Div(Cos(Coarse(th)) * scaledL, Scale)

\* trackPointer: the new <<px, py, pvx, pvy, lastPtT>> after a move to (x, y) at t
trackPointer(x, y, t) ==
    LET dt == Max(1, t - lastPtT)
    IN << x, y,
          clamp(Div((x - px) * Scale, dt), -PV_MAX, PV_MAX),
          clamp(Div((y - py) * Scale, dt), -PV_MAX, PV_MAX),
          t >>

\* angleFromPointer without the sign of dx
angleFromPointer_Unsigned(x, y) ==
    LET dx == x - PivotX
        dy == y - PivotY
        th == Atan2(Abs(dx), dy)
    IN clamp(th * Sub, -MAX, MAX)

\* angleFromPointer(x, y): the angle from the downward vertical, in Fine
angleFromPointer(x, y) ==
    LET dx == x - PivotX
        dy == y - PivotY
        th == Atan2(Abs(dx), dy)
        s == IF dx = 0 THEN 1 ELSE Sign(dx)
    IN clamp(th * s * Sub, -MAX, MAX)

\* ------------------------------------------------------------- lamp: physics
\* breeze = sin(t * 0.0009) * 0.012 * (0.25 + anx * 0.9)
Breeze(t, a) ==
    Div(Div(Sin(t * 9) * 12, 10) * (2500 + Div(a * 9, 10)), Scale)

\* the push of the cursor on the bulb: the amount added to omega when the
\* pointer is closer to the bulb than scaledProximity, else 0
\* (dxp, dyp) is the pointer relative to the bulb
KickAt(dxp, dyp, vx, vy) ==
    LET dist == Hypot(dxp, dyp)
    IN IF dist < scaledProximity
       THEN LET proximity == Scale - Div(dist * Scale, scaledProximity)
                tang == Div(vx * (-dyp) + vy * dxp, dist + 12)
            IN Div(tang * proximity, Scale) * 12
       ELSE 0

ProximityKick(th, ppx, ppy, vx, vy) ==
    KickAt(ppx - BulbX(th), ppy - BulbY(th), vx, vy)

\* Accel without the damping term
Accel_Undamped(th, om0, breeze) ==
    -Div(GRAV * SinFine(th), 10) + breeze

\* acc = -(g / L) * sin(theta) - damp * omega + breeze
Accel(th, om0, breeze) ==
    -Div(GRAV * SinFine(th), 10) - Div(DAMP * om0, 100) + breeze

\* OmegaStep with the clamp left out
OmegaStep_NoClamp(om0, acc, dtms) ==
    om0 + Div(acc * dtms, 1000)

\* omega += acc * dt; omega = clamp(omega, -OMEGA_MAX, OMEGA_MAX)
OmegaStep(om0, acc, dtms) ==
    clamp(om0 + Div(acc * dtms, 1000), -OMEGA_MAX, OMEGA_MAX)

\* theta += omega * dt; theta is clamped and omega loses speed at the stop
ThetaStep(th, om1, dtms) ==
    LET th1 == clamp(th + Div(om1 * dtms, 1000), -MAX, MAX)
    IN << th1, IF Abs(th1) > MAX - Sub THEN Div(om1 * 78, 100) ELSE om1 >>

\* the steps of the integration that follow the push of the cursor
Swing(th, om0, breeze, dtms) ==
    ThetaStep(th, OmegaStep(om0, Accel(th, om0, breeze), dtms), dtms)

\* the integration step of frame() taken with grabbing = false:
\* <<theta, omega>> after it, from the pendulum, the pointer, anx, t and dt
Integrate(th, om, ppx, ppy, vx, vy, a, t, dtms) ==
    Swing(th, om + ProximityKick(th, ppx, ppy, vx, vy), Breeze(t, a), dtms)

\* FramePhysics that integrates during a grab as well
FramePhysics_Always(g, th, om, ppx, ppy, vx, vy, a, t, dtms) ==
    Integrate(th, om, ppx, ppy, vx, vy, a, t, dtms)

\* the physics block of frame(), skipped while the lamp is held (g):
\* <<theta, omega>> after it
FramePhysics(g, th, om, ppx, ppy, vx, vy, a, t, dtms) ==
    IF ~g THEN Integrate(th, om, ppx, ppy, vx, vy, a, t, dtms)
    ELSE << th, om >>

\* --------------------------------------------------------------- lamp: mood
\* anxTarget of frame(): closeness of the pointer to the bulb, speed and spike
AnxTarget(th, om, ppx, ppy, spikeU, t) ==
    LET distToPointer == Hypot(ppx - BulbX(th), ppy - BulbY(th))
        near == clamp(Scale - Div(distToPointer * Scale, scaledNear), 0, Scale)
        spike == IF t < spikeU
                 THEN clamp(Div((spikeU - t) * Scale, 260), 0, Scale)
                 ELSE 0
        speed == clamp(Div(Abs(om), OMEGA_MAX \div Scale), 0, Scale)
    IN clamp(1000 + Div(near * 60, 100) + Div(speed * 85, 100)
                  + Div(spike * 75, 100), 0, Scale)

\* AnxStep with a weight above 1, which shoots past the target
AnxStep_Overshoot(a, target) == lerp(a, target, 100 + ANX_RATE_PCT)

\* AnxStep with the weight 0.6
AnxStep_Fast(a, target) == lerp(a, target, 10 * ANX_RATE_PCT)

\* state.anx after the smoothing step of frame()
AnxStep(a, target) == lerp(a, target, ANX_RATE_PCT)

\* BlackoutStep that draws while a blackout is on as well
BlackoutStep_Restart(bu, a, t, blk, dur) ==
    IF a > BLACKOUT_ANX /\ blk < BLACKOUT_P
    THEN t + 70 + Div(dur * 140, Scale)
    ELSE bu

\* state.blackoutUntil after the blackout draw of frame(); blk and dur are the
\* two Math.random() values
BlackoutStep(bu, a, t, blk, dur) ==
    IF bu < t /\ a > BLACKOUT_ANX /\ blk < BLACKOUT_P
    THEN t + 70 + Div(dur * 140, Scale)
    ELSE bu

\* state.camx / state.camy after the camera step; rj is Math.random()*2-1,
\* gain is 1.6 or 1.1 in tenths
CamStep(c, a, rj, gain) ==
    lerp(c, Div(Div(rj * a, Scale) * gain, 10), CAM_RATE_PCT)

\* ------------------------------------------------------------- lamp: beam
\* Lengths of the beam geometry are in hundredths of a pixel.
Cpx == 100
BASE_BEAM_MAX == 520
\* Math.tan(BEAM_HALF_ANGLE), BEAM_HALF_ANGLE = 0.44
BEAM_TAN == 4708
scaledBeamMax == BASE_BEAM_MAX * LampScale * Cpx

\* clamp((x - a) / (b - a), 0, 1) for a < b
Ramp(a, b, x) ==
    IF x <= a THEN 0
    ELSE IF x >= b THEN Scale
    ELSE Div((x - a) * Scale, b - a)

\* t * t * (3 - 2 * t)
SmoothPoly(t) == Div(Div(t * t, Scale) * (3 * Scale - 2 * t), Scale)

smoothstep(a, b, x) == SmoothPoly(Ramp(a, b, x))

\* Number.toFixed: x in units of which unit make one of the result
ToFixed(x, unit) == Div(x + Sign(x) * (unit \div 2), unit)

ApexX(th) == Cpx * PivotX + Div(Sin(Coarse(th)) * scaledL * Cpx, Scale)
ApexY(th) == Cpx * (PivotY + 16) + Div(Cos(Coarse(th)) * scaledL * Cpx, Scale)

\* along = vx * dirX + vy * dirY
Along(vx, vy, th) ==
    Div(vx * Sin(Coarse(th)) + vy * Cos(Coarse(th)), Scale)

\* vx * dirY - vy * dirX, whose absolute value is perp
Cross(vx, vy, th) ==
    Div(vx * Cos(Coarse(th)) - vy * Sin(Coarse(th)), Scale)

\* PerpOf without Math.abs
PerpOf_Signed(cross) == cross

PerpOf(cross) == Abs(cross)

\* edge = 1 - perp / (maxPerp + 1e-6), to four decimals where it is above 0
\* (any value that is not above 0 gives the same smoothstep)
Edge(perp, maxPerp) ==
    IF perp > maxPerp THEN 0 - Scale
    ELSE IF maxPerp = 0 THEN Scale
    ELSE Scale - Div(perp * Scale, maxPerp)

\* EdgePositive with a cone one pixel wider
EdgePositive_Wide(perp, maxPerp) == perp <= maxPerp + Cpx

\* edge > 0: perp < maxPerp + 1e-6, which for lengths in hundredths of a
\* pixel is perp <= maxPerp
EdgePositive(perp, maxPerp) == perp <= maxPerp

\* maxPerp = along * Math.tan(BEAM_HALF_ANGLE)
MaxPerp(along) == Div(along * BEAM_TAN, Scale)

\* 0.90 + 0.10 * sin(t * (0.010 + anx * 0.010))
FlickerBase(t, a) ==
    9000 + Div(1000 * Sin(t * 100 + Div(t * a, 100)), Scale)

\* BlackoutGain with 0.90 in place of 0.92
BlackoutGain_Weak(blackout) == IF blackout THEN 10 ELSE 100

\* 1 - (blackout ? 0.92 : 0), in hundredths
BlackoutGain(blackout) == IF blackout THEN 8 ELSE 100

\* inside * fadeIn * fadeOut * flicker for 0 < along < scaledBeamMax
BeamProduct(along, perp, maxPerp, a, blackout, t) ==
    Div(Div(Div(Div(smoothstep(0, Scale, Edge(perp, maxPerp))
                      * smoothstep(10 * Cpx, 70 * Cpx, along), Scale)
                  * (Scale - smoothstep(scaledBeamMax - 100 * Cpx,
                                        scaledBeamMax, along)), Scale)
              * FlickerBase(t, a), Scale)
          * BlackoutGain(blackout), 100)

\* vis of frame() for a target at along and perp: val is its value to four
\* decimals, pos tells whether it is above 0.  A product of doubles this far
\* from the underflow threshold is 0 only when a factor is: inside is above
\* 0 when edge is, fadeIn when along > 10, flicker always, and fadeOut for
\* every along below scaledBeamMax by a hundredth of a pixel or more.
Visibility(along, perp, a, blackout, t) ==
    IF along > 0 /\ along < scaledBeamMax
    THEN [ val |-> BeamProduct(along, perp, MaxPerp(along), a, blackout, t),
           pos |-> /\ EdgePositive(perp, MaxPerp(along))
                   /\ along > 10 * Cpx ]
    ELSE [ val |-> 0, pos |-> FALSE ]

\* Jitter that keeps the value of the frame before when the logo is not lit
Jitter_Carry(rj, a, v, blackout) ==
    IF v > 500 /\ a > 2000 /\ ~blackout
    THEN ToFixed(Div(rj * Div(Div(a * v, Scale) * 18, 10), Scale), 100)
    ELSE logoJx

\* --logoJx or --logoJy: rj is Math.random() * 2 - 1, v is vis
Jitter(rj, a, v, blackout) ==
    IF v > 500 /\ a > 2000 /\ ~blackout
    THEN ToFixed(Div(rj * Div(Div(a * v, Scale) * 18, 10), Scale), 100)
    ELSE 0

\* ---------------------------------------------------------- hum synthesizer
\* How one run of the try block of ensureHum goes: to its end, or up to the
\* statement that throws.
HumOutcomes ==
    { "ok",              \* nothing throws
      "throwNew",        \* new AC() throws
      "throwNodes",      \* a create... / connect call after new AC() throws
      "throwOscStart",   \* osc.start() throws
      "throwNoiseStart", \* noise.start() throws
      "throwRamp" }      \* the closing master.gain.setTargetAtTime throws

HumRec == [ started |-> audioStarted, audio |-> audio, calls |-> acCalls,
            osc |-> oscStarts, noise |-> noiseStarts, caught |-> humCaught,
            ctx |-> ctxState, master |-> masterTarget, freq |-> oscFreqTarget,
            ngain |-> noiseGainTarget, ops |-> audioOps ]

\* the try block of ensureHum: the hum and graph variables after it
HumBuild(outcome) ==
    LET built == [ HumRec EXCEPT
                     !.started = TRUE, !.audio = acCalls + 1,
                     !.calls = acCalls + 1,
                     !.osc = oscStarts + 1, !.noise = noiseStarts + 1,
                     !.ctx = "running", !.master = 0,
                     !.freq = 44 * Scale, !.ngain = 300 ]
    IN CASE outcome = "ok" ->
              [ built EXCEPT !.master = 500, !.ops = audioOps + 1 ]
         [] outcome = "throwRamp" ->
              [ built EXCEPT !.caught = TRUE ]
         [] outcome = "throwNew" ->
              [ HumRec EXCEPT !.calls = acCalls + 1, !.caught = TRUE ]
         [] outcome \in { "throwNodes", "throwOscStart" } ->
              [ HumRec EXCEPT !.calls = acCalls + 1, !.caught = TRUE ]
         [] outcome = "throwNoiseStart" ->
              [ HumRec EXCEPT !.calls = acCalls + 1,
                              !.osc = oscStarts + 1, !.caught = TRUE ]

\* ensureHum without the audioStarted check
ensureHum_NoGuard(outcome) ==
    IF ~hasAC THEN HumRec ELSE HumBuild(outcome)

\* ensureHum that gives up for good after a caught exception
ensureHum_GiveUp(outcome) ==
    IF audioStarted \/ humCaught THEN HumRec
    ELSE IF ~hasAC THEN HumRec
    ELSE HumBuild(outcome)

\* ensureHum(): the hum and graph variables after the call
ensureHum(outcome) ==
    IF audioStarted THEN HumRec
    ELSE IF ~hasAC THEN HumRec
    ELSE HumBuild(outcome)

\* audioTick without its guard
audioTick_NoGuard(a, blackout, resumed) ==
    LET vol == 200 + Div(a * 55, 1000)
    IN << IF ctxState = "suspended" /\ resumed THEN "running" ELSE ctxState,
          IF blackout THEN Div(vol * 35, 100) ELSE vol,
          40 * Scale + a * 12,
          200 + Div(a * 3, 100),
          audioOps + 3 >>

\* audioTick(t): <<ctxState, masterTarget, oscFreqTarget, noiseGainTarget,
\* audioOps>> after the call; a is state.anx, resumed tells whether a
\* ctx.resume() of a suspended context takes effect
audioTick(a, blackout, resumed) ==
    IF ~audioStarted \/ audio = 0
    THEN << ctxState, masterTarget, oscFreqTarget, noiseGainTarget, audioOps >>
    ELSE LET vol == 200 + Div(a * 55, 1000)
         IN << IF ctxState = "suspended" /\ resumed THEN "running" ELSE ctxState,
               IF blackout THEN Div(vol * 35, 100) ELSE vol,
               40 * Scale + a * 12,
               200 + Div(a * 3, 100),
               audioOps + 3 >>

\* audioTick(t) in which master.gain.setTargetAtTime throws: the graph
\* variables at the throw
audioTickThrown(resumed) ==
    << IF ctxState = "suspended" /\ resumed THEN "running" ELSE ctxState,
       masterTarget, oscFreqTarget, noiseGainTarget, audioOps >>

\* ------------------------------------------------------------- lamp: grab
\* the kick of the pointer-down handler: omega after it, for e.clientX = x
GrabKick(om, x) ==
    om + clamp(Div((x - PivotX) * Scale, 140), -Scale, Scale) * 75

\* the grabbed pointer-move handler: <<theta, omega>> after a move to (x, y) at t
\* w is kept within 12 rad/s either way: beyond that the clamp of the blend
\* gives -OMEGA_MAX or OMEGA_MAX whatever w is
GrabMove(om, x, y, t) ==
    LET dt == Max(1, t - grabLastT)
        newTheta == angleFromPointer(x, y)
        w == clamp(Div((newTheta - grabLastTheta) * 1000, dt),
                   -12 * Fine, 12 * Fine)
    IN << newTheta, clamp(lerp(om, w, GRAB_BLEND_PCT), -OMEGA_MAX, OMEGA_MAX) >>

\* wPtr of endGrab, (rx*vy - ry*vx) / (r2 + 1e-6) in rad/s.  a is the cross
\* product with the velocity in px/ms; quotients of 100 rad/s and more are
\* reported as 100 rad/s, which the clamp that follows cannot tell apart
WPtr(a, r2) ==
    IF r2 = 0 THEN 0
    ELSE LET q == Div(a, r2)
             rem == a - q * r2
         IN IF Abs(q) >= 1000 THEN Sign(q) * 1000 * 1000
            ELSE q * 1000 + Div(rem * 1000, r2)

\* ReleaseCross with its terms exchanged
ReleaseCross_Flipped(rx, ry, vx, vy) == ry * vx - rx * vy

\* the cross product rx * vy - ry * vx of endGrab, with the velocity in px/ms
ReleaseCross(rx, ry, vx, vy) == rx * vy - ry * vx

\* wPtr * 0.28, what endGrab adds to omega before it clamps
ReleaseFlick(ppx, ppy, vx, vy) ==
    LET rx == ppx - PivotX
        ry == ppy - PivotY
    IN WPtr(ReleaseCross(rx, ry, vx, vy), rx * rx + ry * ry) * 28

\* endGrab: omega after the release flick and the 1.05 overshoot
ReleaseKick(om, ppx, ppy, vx, vy) ==
    clamp(Div(clamp(om + ReleaseFlick(ppx, ppy, vx, vy), -OMEGA_MAX, OMEGA_MAX)
                * 105, 100),
          -OMEGA_MAX, OMEGA_MAX)

\* ----------------------------------------------------------------- inputs
StartTime == 500
InitThetas == { -50000, 30000 }
\* ms between two animation frames, and between a pointer event and the
\* handler before it
FrameGaps == { 16, 40 }
PtrGap == 8
\* e.clientX of a pointer-down on the hit region
DownXs == { PivotX - 200, PivotX + 70 }
\* pointer positions of a pointer-move: beside the bulb, and far right of the
\* pivot level with the bulb
MovePos == { << PivotX + 20, PivotY + 170 >>, << PivotX + 300, PivotY + 150 >> }
\* the Math.random() draws of one frame: <<blackout draw, blackout length,
\* camera x, camera y, logo jitter x, logo jitter y>>, the last four already
\* mapped to [-1, 1]
FrameRnd == { << 50, 5000, Scale, -Scale, 7000, -4000 >>,
              << 5000, 0, -3000, 6000, 7000, -4000 >> }
CalmRnd == { << 5000, 0, -3000, 6000, 7000, -4000 >> }
\* where the logo sits when nothing else is said: 400 px below the pivot
LogoHome == << Cpx * PivotX, Cpx * (PivotY + 400) >>

\* ------------------------------------------------------------------- Init
\* setupCases: the dialog is closed, nothing is registered on it
CasesSetup(reduce) ==
    /\ prefersReduce = reduce
    /\ dlgOpen = FALSE /\ dlgInstance = 0
    /\ isClosing = FALSE /\ closingClass = FALSE
    /\ endL = {} /\ cancelL = {} /\ timers = {}
    /\ anim = "none" /\ cancelPending = FALSE /\ closer = 0

\* music page after the init call setTrack(0, { autoplay: false })
DeckSetup(web) ==
    /\ index = 0 /\ deckTrack = 0 /\ srcTrack = 0 /\ threw = FALSE
    /\ canWebAudio = web /\ acState = "none"
    /\ paused = TRUE /\ started = FALSE
    /\ awaitResume = 0 /\ awaitStart = 0 /\ playEvents = 0
    /\ raf = 0 /\ frames = {} /\ rafNext = 1
    /\ quiet = FALSE

InitLampPage ==
    /\ now = StartTime
    /\ omega = 0
    /\ grabbing = FALSE /\ grabLastT = 0 /\ grabLastTheta = 0
    /\ held = FALSE /\ captured = FALSE /\ relKick = 0
    /\ px = InnerWidth \div 2 /\ py = 220 /\ pvx = 0 /\ pvy = 0
    /\ lastPtT = StartTime
    /\ lastT = StartTime /\ anxTarget = 0 /\ frameScheduled = TRUE
    /\ beamAlong = 0 /\ beamCross = 0 /\ vis = 0 /\ visPos = FALSE
    /\ logoVis = 0 /\ logoJx = 0 /\ logoJy = 0
    /\ camx = 0 /\ camy = 0
    /\ blackoutUntil = 0 /\ spikeUntil = 0
    /\ audioStarted = FALSE /\ audio = 0
    /\ acCalls = 0 /\ oscStarts = 0 /\ noiseStarts = 0 /\ humCaught = FALSE
    /\ ctxState = "none"
    /\ masterTarget = 0 /\ oscFreqTarget = 0 /\ noiseGainTarget = 0
    /\ audioOps = 0
    /\ glitchFrames = 0 /\ dustLast = 0 /\ dustOp = 0
    /\ ptX = 40000 /\ ptY = 30000 /\ tearing = FALSE
    /\ wobbleBase = 120 /\ turbBF = 0 /\ dispScale = 0
    /\ doorHover = FALSE /\ doorJx = 0 /\ doorJy = 0 /\ doorJr = 0
    /\ doorOpen = {} /\ tapTarget = 0 /\ tapPrevented = FALSE
    /\ op = "setup"
    /\ steps = 0

\* the lamp page after setup; the other pages are at rest
InitLamp == InitLampPage /\ CasesSetup(FALSE) /\ DeckSetup(TRUE)

\* state.anx starts at 0
InitBase == InitLamp /\ anx = 0

\* setupRippleToggle: the checkbox and state.rippleOff follow the stored
\* preference ("none": nothing stored, or localStorage is not readable)
InitRipple(pref) ==
    /\ storedPref = pref
    /\ cbChecked = (pref = "1")
    /\ rippleOff = (pref = "1")

\* logo.getBoundingClientRect(): the centre of the logo's box
InitLogo(spot) == lx = spot[1] /\ ly = spot[2]

Init == InitBase /\ InitLogo(LogoHome) /\ InitRipple("none") /\ theta \in InitThetas /\ hasAC = TRUE

\* ---------------------------------------------------------------- actions
Step(name, d) ==
    /\ steps' = steps + 1
    /\ op' = name
    /\ now' = now + d
    /\ UNCHANGED << caseVars, deckVars >>

\* MoodSeen reading the values the frame before left
MoodSeen_Stale == << anx, blackoutUntil >>

\* state.anx and state.blackoutUntil as the beam, the logo jitter and
\* audioTick of a frame read them: the values this frame has written
MoodSeen == << anx', blackoutUntil' >>

\* the animation callback frame(t), t = now + d; throws tells whether a
\* parameter update of audioTick throws, which ends frame() before it asks
\* for the next animation frame
Frame(d, r, resumed, throws) ==
    LET t == now + d
        phys == FramePhysics(grabbing, theta, omega, px, py, pvx, pvy, anx, t,
                             Min(DT_CAP_MS, t - lastT))
        blackout == t < MoodSeen[2]
        thrown == throws /\ audioStarted /\ audio # 0
        g == IF thrown THEN audioTickThrown(resumed)
             ELSE audioTick(MoodSeen[1], blackout, resumed)
        v == Visibility(beamAlong', PerpOf(beamCross'), MoodSeen[1], blackout, t)
    IN /\ frameScheduled
       /\ Step("frame", d)
       /\ frameScheduled' = ~thrown
       /\ lastT' = t
       /\ theta' = phys[1] /\ omega' = phys[2]
       /\ anxTarget' = AnxTarget(theta', omega', px, py, spikeUntil, t)
       /\ anx' = AnxStep(anx, anxTarget')
       /\ blackoutUntil' = BlackoutStep(blackoutUntil, anx', t, r[1], r[2])
       /\ camx' = CamStep(camx, anx', r[3], 16)
       /\ camy' = CamStep(camy, anx', r[4], 11)
       /\ beamAlong' = Along(lx - ApexX(theta'), ly - ApexY(theta'), theta')
       /\ beamCross' = Cross(lx - ApexX(theta'), ly - ApexY(theta'), theta')
       /\ vis' = v.val /\ visPos' = v.pos
       /\ logoVis' = ToFixed(clamp(vis', 0, Scale), 10)
       /\ logoJx' = Jitter(r[5], MoodSeen[1], vis', blackout)
       /\ logoJy' = Jitter(r[6], MoodSeen[1], vis', blackout)
       /\ ctxState' = g[1] /\ masterTarget' = g[2] /\ oscFreqTarget' = g[3]
       /\ noiseGainTarget' = g[4] /\ audioOps' = g[5]
       /\ UNCHANGED << grabbing, grabLastT, grabLastTheta, gestureVars, ptrVars,
                       spikeUntil, rippleOff, humVars, envVars, pageVars >>

\* pointerdown on the hit region at e.clientX = x; capOk tells whether
\* hit.setPointerCapture succeeds (its exception is swallowed)
PointerDown(d, x, outcome, capOk) ==
    LET t == now + d
        h == ensureHum(outcome)
    IN /\ Step("pointerdown", d)
       /\ audioStarted' = h.started /\ audio' = h.audio /\ acCalls' = h.calls
       /\ oscStarts' = h.osc /\ noiseStarts' = h.noise /\ humCaught' = h.caught
       /\ ctxState' = h.ctx /\ masterTarget' = h.master
       /\ oscFreqTarget' = h.freq /\ noiseGainTarget' = h.ngain
       /\ audioOps' = h.ops
       /\ grabbing' = TRUE
       /\ held' = TRUE /\ captured' = capOk
       /\ grabLastT' = t
       /\ grabLastTheta' = theta
       /\ omega' = GrabKick(omega, x)
       /\ spikeUntil' = t + 260
       /\ UNCHANGED << theta, relKick, ptrVars, frameVars, anx, camx, camy,
                       blackoutUntil, rippleOff, envVars, pageVars >>

\* pointermove to p: the handler on the hit region runs when the event is
\* dispatched there (onHit), then trackPointer on the window
PointerMove(d, p, onHit) ==
    LET t == now + d
        tp == trackPointer(p[1], p[2], t)
    IN /\ Step("pointermove", d)
       /\ IF onHit /\ grabbing
          THEN LET m == GrabMove(omega, p[1], p[2], t)
               IN /\ theta' = m[1] /\ omega' = m[2]
                  /\ grabLastT' = t /\ grabLastTheta' = m[1]
                  /\ spikeUntil' = t + 120
          ELSE UNCHANGED << theta, omega, grabLastT, grabLastTheta, spikeUntil >>
       /\ px' = tp[1] /\ py' = tp[2] /\ pvx' = tp[3] /\ pvy' = tp[4]
       /\ lastPtT' = tp[5]
       /\ UNCHANGED << grabbing, gestureVars, frameVars, anx, camx, camy,
                       blackoutUntil, rippleOff, humVars, envVars, graphVars,
                       pageVars >>

\* EndGrab without the early return of endGrab
EndGrab_Unguarded(d) ==
    /\ Step("endGrab", d)
    /\ held' = FALSE /\ captured' = FALSE
    /\ grabbing' = FALSE
    /\ relKick' = ReleaseFlick(px, py, pvx, pvy)
    /\ omega' = ReleaseKick(omega, px, py, pvx, pvy)
    /\ spikeUntil' = now + d + 180
    /\ UNCHANGED << theta, grabLastT, grabLastTheta, ptrVars, frameVars, anx, camx,
                    camy, blackoutUntil, rippleOff, humVars, envVars, graphVars,
                    pageVars >>

\* pointerup / pointercancel dispatched to the hit region: the pointer is
\* over it or captured by it
EndGrab(d) ==
    /\ Step("endGrab", d)
    /\ held' = FALSE /\ captured' = FALSE
    /\ IF grabbing
       THEN /\ grabbing' = FALSE
            /\ relKick' = ReleaseFlick(px, py, pvx, pvy)
            /\ omega' = ReleaseKick(omega, px, py, pvx, pvy)
            /\ spikeUntil' = now + d + 180
       ELSE UNCHANGED << grabbing, relKick, omega, spikeUntil >>
    /\ UNCHANGED << theta, grabLastT, grabLastTheta, ptrVars, frameVars, anx, camx,
                    camy, blackoutUntil, rippleOff, humVars, envVars, graphVars,
                    pageVars >>

\* pointerup / pointercancel dispatched to another element: the pointer is
\* neither captured by the hit region nor over it; no handler of the page runs
ReleaseOutside(d) ==
    /\ held /\ ~captured
    /\ Step("releaseOutside", d)
    /\ held' = FALSE
    /\ UNCHANGED << theta, omega, grabbing, grabLastT, grabLastTheta, captured,
                    relKick, ptrVars, frameVars, moodVars, humVars, envVars,
                    graphVars, pageVars >>

\* the hit region loses the pointer capture while the pointer is down; the
\* page has no lostpointercapture handler
LostCapture ==
    /\ held /\ captured
    /\ Step("lostCapture", 0)
    /\ captured' = FALSE
    /\ UNCHANGED << theta, omega, grabbing, grabLastT, grabLastTheta, held,
                    relKick, ptrVars, frameVars, moodVars, humVars, envVars,
                    graphVars, pageVars >>

\* the browser suspends the audio context (a backgrounded tab)
CtxSuspend ==
    /\ audio # 0 /\ ctxState = "running"
    /\ Step("suspend", 0)
    /\ ctxState' = "suspended"
    /\ UNCHANGED << lampVars, ptrVars, frameVars, moodVars, humVars, envVars,
                    masterTarget, oscFreqTarget, noiseGainTarget, audioOps,
                    pageVars >>

\* ------------------------------------------------------ the rest of the page
\* RippleChange that also calms the mood
RippleChange_CalmsMood ==
    /\ Step("change", 0)
    /\ cbChecked' = ~cbChecked
    /\ rippleOff' = cbChecked'
    /\ storedPref' = IF cbChecked' THEN "1" ELSE "0"
    /\ anx' = 0
    /\ UNCHANGED << lampVars, ptrVars, frameVars, camx, camy, blackoutUntil,
                    spikeUntil, humVars, envVars, graphVars, dustVars,
                    wobbleVars, doorVars >>

\* the change handler of the ripple checkbox: the box has just been toggled
RippleChange ==
    /\ Step("change", 0)
    /\ cbChecked' = ~cbChecked
    /\ rippleOff' = cbChecked'
    /\ storedPref' = IF cbChecked' THEN "1" ELSE "0"
    /\ UNCHANGED << lampVars, ptrVars, frameVars, anx, camx, camy, blackoutUntil,
                    spikeUntil, humVars, envVars, graphVars, dustVars,
                    wobbleVars, doorVars >>

\* the dust canvas and its one modelled particle, in hundredths of a pixel
CanvasW == 80000
CanvasH == 60000
PtVx == 5
PtVy == -7

\* a particle coordinate after the wrap at the canvas border
Wrap(x, size) ==
    LET x1 == IF x < -2000 THEN size + 2000 ELSE x
    IN IF x1 > size + 2000 THEN -2000 ELSE x1

\* DustDraw that does not look at state.rippleOff
DustDraw_IgnoresPref(rn) ==
    /\ Step("draw", 0)
    /\ IF now - dustLast < 17
       THEN UNCHANGED dustVars
       ELSE /\ dustLast' = now
            /\ LET blackout == now < blackoutUntil
                   rate == 300 + Div(anx * 11, 100)
                   gf == IF glitchFrames = 0 /\ rn[1] < rate
                         THEN 3 + Div(rn[2] * 6, Scale)
                         ELSE glitchFrames
                   glitch == gf > 0
                   jump == (glitch \/ blackout)
                             /\ rn[3] < 2800 + Div(anx * 22, 100)
               IN /\ glitchFrames' = IF glitch THEN gf - 1 ELSE gf
                  /\ dustOp' = 1800 + Div(anx * 34, 100)
                                 + (IF blackout THEN 800 ELSE 0)
                  /\ ptX' = Wrap(ptX + PtVx + (IF jump THEN rn[4] ELSE 0),
                                 CanvasW)
                  /\ ptY' = Wrap(ptY + PtVy + (IF jump THEN rn[5] ELSE 0),
                                 CanvasH)
                  /\ tearing' = (glitch \/ blackout)
    /\ UNCHANGED << lampVars, ptrVars, frameVars, moodVars, humVars, envVars,
                    graphVars, rippleVars, wobbleVars, doorVars >>

\* draw(t) of the dust canvas at t = now; rn is the Math.random() draws
\* <<glitch start, glitch length, particle jump, jump x, jump y>>.  tearing
\* tells whether the canvas shows tearing bands, scanlines and blocks: the
\* draw with state.rippleOff set clears the canvas and returns
DustDraw(rn) ==
    /\ Step("draw", 0)
    /\ IF now - dustLast < 17
       THEN UNCHANGED dustVars
       ELSE /\ dustLast' = now
            /\ IF rippleOff
               THEN /\ tearing' = FALSE
                    /\ UNCHANGED << glitchFrames, dustOp, ptX, ptY >>
               ELSE LET blackout == now < blackoutUntil
                        rate == 300 + Div(anx * 11, 100)
                        gf == IF glitchFrames = 0 /\ rn[1] < rate
                              THEN 3 + Div(rn[2] * 6, Scale)
                              ELSE glitchFrames
                        glitch == gf > 0
                        jump == (glitch \/ blackout)
                                  /\ rn[3] < 2800 + Div(anx * 22, 100)
                    IN /\ glitchFrames' = IF glitch THEN gf - 1 ELSE gf
                       /\ dustOp' = 1800 + Div(anx * 34, 100)
                                      + (IF blackout THEN 800 ELSE 0)
                       /\ ptX' = Wrap(ptX + PtVx + (IF jump THEN rn[4] ELSE 0),
                                      CanvasW)
                       /\ ptY' = Wrap(ptY + PtVy + (IF jump THEN rn[5] ELSE 0),
                                      CanvasH)
                       /\ tearing' = (glitch \/ blackout)
    /\ UNCHANGED << lampVars, ptrVars, frameVars, moodVars, humVars, envVars,
                    graphVars, rippleVars, wobbleVars, doorVars >>

\* the 220 ms timer of animateWobbleFilter; rw is <<Math.random()*0.002-0.001,
\* Math.random()>>
WobbleTick(rw) ==
    LET base == clamp(wobbleBase + rw[1], 90, 160)
    IN /\ Step("wobble", 0)
       /\ wobbleBase' = base
       /\ turbBF' = clamp(base + Div(anx * 4, 1000), 90, 200)
       /\ dispScale' = 2 * Scale + anx * 7
                         + Div(rw[2] * (8000 + Div(anx * 16, 10)), Scale)
       /\ UNCHANGED << lampVars, ptrVars, frameVars, moodVars, humVars, envVars,
                       graphVars, rippleVars, dustVars, doorVars >>

\* the jitter timer step() of a door; rj is the three draws mapped to [-1, 1]
DoorStep(rj) ==
    LET k == Div((IF doorHover THEN 11500 ELSE Scale)
                   * (Scale + Div(anx * 55, 100)), Scale)
    IN /\ Step("doorStep", 0)
       /\ doorJx' = Div(rj[1] * k, Scale)
       /\ doorJy' = Div(rj[2] * k, Scale)
       /\ doorJr' = Div(Div(rj[3] * 275, 1000) * k, Scale)
       /\ UNCHANGED << lampVars, ptrVars, frameVars, moodVars, humVars, envVars,
                       graphVars, rippleVars, dustVars, wobbleVars, doorHover,
                       tapVars >>

\* DoorHover that also arms an anxiety spike
DoorHover_Spikes(h) ==
    /\ Step("doorHover", 0)
    /\ doorHover' = h
    /\ spikeUntil' = now + 120
    /\ UNCHANGED << lampVars, ptrVars, frameVars, anx, camx, camy, blackoutUntil,
                    rippleOff, humVars, envVars, graphVars, rippleVars, dustVars,
                    wobbleVars, doorJx, doorJy, doorJr, tapVars >>

\* pointerenter / pointerleave on a door
DoorHover(h) ==
    /\ Step("doorHover", 0)
    /\ doorHover' = h
    /\ UNCHANGED << lampVars, ptrVars, frameVars, moodVars, humVars, envVars,
                    graphVars, rippleVars, dustVars, wobbleVars,
                    doorJx, doorJy, doorJr, tapVars >>

\* the doors of the page
NumDoors == 3
Doors == 1 .. NumDoors

\* DoorTouch that opens the door without closing the others
DoorTouch_KeepsOthers(d) ==
    /\ Step("touch", 0)
    /\ tapTarget' = d
    /\ IF d \notin doorOpen
       THEN /\ tapPrevented' = TRUE
            /\ doorOpen' = doorOpen \cup { d }
       ELSE /\ tapPrevented' = FALSE
            /\ UNCHANGED doorOpen
    /\ UNCHANGED << lampVars, ptrVars, frameVars, moodVars, humVars, envVars,
                    graphVars, rippleVars, dustVars, wobbleVars,
                    doorHover, doorJx, doorJy, doorJr >>

\* touchstart on door d
DoorTouch(d) ==
    /\ Step("touch", 0)
    /\ tapTarget' = d
    /\ IF d \notin doorOpen
       THEN /\ tapPrevented' = TRUE
            /\ doorOpen' = (doorOpen \ Doors) \cup { d }
       ELSE /\ tapPrevented' = FALSE
            /\ UNCHANGED doorOpen
    /\ UNCHANGED << lampVars, ptrVars, frameVars, moodVars, humVars, envVars,
                    graphVars, rippleVars, dustVars, wobbleVars,
                    doorHover, doorJx, doorJy, doorJr >>

\* click on the document, inside door d or, for d = 0, outside every door
DocClick(d) ==
    /\ Step("click", 0)
    /\ tapTarget' = d
    /\ doorOpen' = IF d \in Doors THEN doorOpen ELSE doorOpen \ Doors
    /\ UNCHANGED << lampVars, ptrVars, frameVars, moodVars, humVars, envVars,
                    graphVars, rippleVars, dustVars, wobbleVars,
                    doorHover, doorJx, doorJy, doorJr, tapPrevented >>

DustRnd == { << 100, 5000, 1000, 1500, -900 >>, << 9000, 0, 9000, 0, 0 >> }
WobbleRnd == { << 10, 5000 >> }
DoorRnd == { << Scale, -5000, 2000 >> }

\* the handlers of the other page systems, while fewer than bound handlers
\* have run
PageNext(bound) ==
    \/ steps < bound /\ RippleChange
    \/ \E rn \in DustRnd : steps < bound /\ DustDraw(rn)
    \/ \E rw \in WobbleRnd : steps < bound /\ WobbleTick(rw)
    \/ \E rj \in DoorRnd : steps < bound /\ DoorStep(rj)
    \/ \E h \in BOOLEAN : steps < bound /\ DoorHover(h)

\* the handlers of setupLamp, with their inputs drawn from the given sets,
\* while fewer than bound handlers have run
LampNext(bound, gaps, rnds, xs, outcomes, poss) ==
    \/ \E d \in gaps, r \in rnds, resumed \in BOOLEAN :
          steps < bound /\ Frame(d, r, resumed, FALSE)
    \/ \E x \in xs, o \in outcomes :
          steps < bound /\ PointerDown(PtrGap, x, o, TRUE)
    \/ \E p \in poss, onHit \in BOOLEAN :
          steps < bound /\ PointerMove(PtrGap, p, onHit)
    \/ steps < bound /\ EndGrab(PtrGap)
    \/ steps < bound /\ CtxSuspend

Next == LampNext(MaxSteps, FrameGaps, CalmRnd, DownXs, { "ok" }, MovePos)

Spec == Init /\ [][Next]_vars

\* the lamp with every way ensureHum can go, on a page with or without an
\* audio constructor
InitHum == InitBase /\ InitLogo(LogoHome) /\ InitRipple("none") /\ theta = 30000 /\ hasAC \in BOOLEAN

NextHum ==
    LampNext(MaxSteps, { 16 }, FrameRnd, { PivotX + 70 }, HumOutcomes,
             { << PivotX + 20, PivotY + 170 >> })

SpecHum == InitHum /\ [][NextHum]_vars

\* the whole page: the lamp together with the systems that read the mood
InitPage == InitBase /\ InitLogo(LogoHome) /\ theta = 30000 /\ hasAC = TRUE
              /\ \E pref \in { "none", "1" } : InitRipple(pref)

NextPage ==
    \/ LampNext(MaxSteps, { 16 }, CalmRnd, { PivotX + 70 }, { "ok" },
                { << PivotX + 20, PivotY + 170 >> })
    \/ PageNext(MaxSteps)

SpecPage == InitPage /\ [][NextPage]_vars

\* a longer gesture on the left of the pivot: the lamp is grabbed, dragged
\* between two positions and thrown
SwingPos == { << PivotX - 200, PivotY + 150 >>, << PivotX - 70, PivotY + 170 >> }

InitSwing == InitBase /\ InitLogo(LogoHome) /\ InitRipple("none") /\ theta = 30000 /\ hasAC = TRUE

NextSwing ==
    \/ \E r \in CalmRnd : steps < MaxSwing /\ Frame(16, r, TRUE, FALSE)
    \/ steps < MaxSwing /\ PointerDown(PtrGap, PivotX - 200, "ok", TRUE)
    \/ \E p \in SwingPos, onHit \in BOOLEAN :
          steps < MaxSwing /\ PointerMove(PtrGap, p, onHit)
    \/ steps < MaxSwing /\ EndGrab(PtrGap)

SpecSwing == InitSwing /\ [][NextSwing]_vars

\* the gesture with its failures: setPointerCapture may throw, the capture
\* may be lost, the pointer may be released away from the hit region, and a
\* parameter update of audioTick may throw
GesturePos == MovePos \cup SwingPos

InitGesture == InitBase /\ InitLogo(LogoHome) /\ InitRipple("none") /\ theta = 30000 /\ hasAC = TRUE

NextGesture ==
    \/ \E r \in CalmRnd, throws \in BOOLEAN :
          steps < MaxSteps /\ Frame(16, r, TRUE, throws)
    \/ \E x \in DownXs, capOk \in BOOLEAN :
          steps < MaxSteps /\ PointerDown(PtrGap, x, "ok", capOk)
    \/ \E p \in GesturePos, onHit \in BOOLEAN :
          steps < MaxSteps /\ PointerMove(PtrGap, p, onHit)
    \/ steps < MaxSteps /\ EndGrab(PtrGap)
    \/ steps < MaxSteps /\ ReleaseOutside(PtrGap)
    \/ steps < MaxSteps /\ LostCapture

SpecGesture == InitGesture /\ [][NextGesture]_vars

\* ------------------------------------------------------------------ claims
\* C1: every frame() taken with grabbing = false leaves theta in [-MAX, MAX]
\* and omega in [-OMEGA_MAX, OMEGA_MAX], whatever the pointer and dt are.
C1_FrameClamps ==
    [][ (op' = "frame" /\ ~grabbing)
          => (theta' \in -MAX..MAX /\ omega' \in -OMEGA_MAX..OMEGA_MAX) ]_vars

\* a free frame has just pinned omega at its bound
C1_Witness == op = "frame" /\ ~grabbing /\ omega = OMEGA_MAX /\ theta > -MAX

\* C2: omega lies in [-OMEGA_MAX, OMEGA_MAX] in every reachable state of the
\* lamp, also after the kick of a pointer-down and during a grab.
C2_OmegaBounded == omega \in -OMEGA_MAX..OMEGA_MAX

\* C3: state.anx is in [0, 1] in every reachable state.
C3_AnxInUnit == anx \in 0..Scale

\* a frame has just moved anx toward a target of 1
C3_Witness == op = "frame" /\ anxTarget = Scale /\ anx > 0

\* C4: a frame whose anxiety target is 1 does not lower anx, moves it by 0.06
\* of its distance to 1, and leaves it at most 1.
C4_PinnedApproach ==
    [][ (op' = "frame" /\ anxTarget' = Scale)
          => /\ anx' >= anx
             /\ anx' - anx = Div((Scale - anx) * 6, 100)
             /\ anx' <= Scale ]_vars

\* the second of two consecutive frames with target 1, starting from anx = 0
C4_Witness == op = "frame" /\ anxTarget = Scale /\ anx = 1164

\* C5: state.anx changes only in frame(); the pointer handlers, the dust
\* draw loop, the wobble and door timers and the ripple toggle leave it alone,
\* and within frame() it is the lerp value that stays (audioTick does not
\* touch it).
C5_AnxOnlyByFrame ==
    [][ /\ (anx' # anx => op' = "frame")
        /\ (op' = "frame" => anx' = lerp(anx, anxTarget', ANX_RATE_PCT)) ]_vars

\* another system has run after frames raised anx
C5_Witness == anx > 0 /\ op \in { "draw", "wobble", "doorStep", "change",
                                 "pointerdown", "pointermove", "endGrab" }

\* C6 as stated: every field of the mood state and of the pendulum state
\* changes only during frame().
C6_OnlyFrameWrites ==
    [][ << anx, camx, camy, blackoutUntil, spikeUntil, audioStarted, rippleOff,
           theta, omega, grabbing >>'
          # << anx, camx, camy, blackoutUntil, spikeUntil, audioStarted,
               rippleOff, theta, omega, grabbing >>
          => op' = "frame" ]_vars

\* C6 amended: anx, camx, camy and blackoutUntil change only during frame();
\* the other fields are written by the handlers: spikeUntil, omega and
\* grabbing by pointer-down, grabbed pointer-move and release, audioStarted
\* by pointer-down, theta by frame() and the grabbed pointer-move, rippleOff
\* by the checkbox change handler; the timers write none of them.
C6_Writers ==
    [][ /\ (<< anx, camx, camy, blackoutUntil >>'
              # << anx, camx, camy, blackoutUntil >> => op' = "frame")
        /\ (spikeUntil' # spikeUntil
              => op' \in { "pointerdown", "pointermove", "endGrab" })
        /\ (grabbing' # grabbing => op' \in { "pointerdown", "endGrab" })
        /\ (audioStarted' # audioStarted => op' = "pointerdown")
        /\ (theta' # theta => op' \in { "frame", "pointermove" })
        /\ (omega' # omega
              => op' \in { "frame", "pointerdown", "pointermove", "endGrab" })
        /\ (rippleOff' # rippleOff => op' = "change") ]_vars

\* handlers other than frame() have written the mood and pendulum state
C6_Witness == op = "change" /\ rippleOff /\ grabbing /\ spikeUntil > 0

\* C7: once ensureHum has built the graph, later calls construct and start
\* nothing, and state.audio keeps referring to the same graph.
C7_HumIdempotent ==
    [][ audioStarted
          => /\ acCalls' = acCalls
             /\ oscStarts' = oscStarts /\ noiseStarts' = noiseStarts
             /\ audio' = audio /\ audioStarted' ]_vars

\* a second pointer-down right after the one that built the graph
C7_Witness ==
    /\ op = "pointerdown" /\ steps = 2 /\ omega = 2 * GrabKick(0, PivotX + 70)
    /\ audioStarted /\ acCalls = 1 /\ ~humCaught

\* C8 as stated: a pointer-down whose ensureHum finds no constructor, or in
\* which any statement of the try block throws, ends with audioStarted false,
\* state.audio null and grabbing true.
C8_HumFailureLeavesNotStarted ==
    [][ \A o \in HumOutcomes \ { "ok" } :
          ( /\ ~audioStarted
            /\ \E x \in DownXs : PointerDown(PtrGap, x, o, TRUE) )
            => (~audioStarted' /\ audio' = 0 /\ grabbing') ]_vars

\* C9 as stated: after the catch block has run once, no later handler calls
\* the constructor again and audioStarted stays false.
C9_NoRetry ==
    [][ humCaught => (acCalls' = acCalls /\ ~audioStarted') ]_vars

\* C9 amended: a pointer-down calls the audio constructor exactly when
\* audioStarted is false and the constructor exists, also after earlier
\* attempts have thrown; nothing else calls it or changes audioStarted.
C9_RetryUntilStarted ==
    [][ /\ (op' = "pointerdown"
              => IF ~audioStarted /\ hasAC
                 THEN acCalls' = acCalls + 1
                 ELSE acCalls' = acCalls /\ audioStarted' = audioStarted)
        /\ (op' # "pointerdown"
              => acCalls' = acCalls /\ audioStarted' = audioStarted) ]_vars

\* a pointer-down has constructed again after an attempt that threw
C9_Witness == humCaught /\ acCalls >= 2 /\ op = "pointerdown"

\* C10: audioStarted only goes from false to true, only in a pointer-down,
\* and frame() touches the audio graph only when audioStarted is true and
\* state.audio is set.
C10_StartedOneWay ==
    [][ /\ (audioStarted' # audioStarted
              => ~audioStarted /\ audioStarted' /\ op' = "pointerdown")
        /\ ((op' = "frame" /\ graphVars' # graphVars)
              => audioStarted /\ audio # 0) ]_vars

\* a frame has retargeted the graph built by an earlier pointer-down
C10_Witness == op = "frame" /\ audioStarted /\ audio # 0 /\ audioOps >= 4

\* C15 as stated: whenever grabbing is true the pointer that started the
\* grab is still down; every end of the gesture clears grabbing.
C15_NoStuckGrab == grabbing => held

\* C17: the flick endGrab adds to omega never has the sign opposite to the
\* cross product rx * vy - ry * vx, is zero when the cross product is zero,
\* and is nonzero with its sign whenever the quotient wPtr is at least one
\* unit of Scale.
C17_KickSign ==
    [][ (op' = "endGrab" /\ grabbing)
          => LET c == (px - PivotX) * pvy - (py - PivotY) * pvx
                 r2 == (px - PivotX) * (px - PivotX)
                         + (py - PivotY) * (py - PivotY)
             IN /\ relKick' * Sign(c) >= 0
                /\ (c = 0 => relKick' = 0)
                /\ (Abs(c) >= (r2 + 999) \div 1000 /\ r2 > 0
                      => Sign(relKick') = Sign(c))
      ]_vars

\* a release has flicked the lamp against the clock
C17_Witness == op = "endGrab" /\ relKick < 0 /\ ~grabbing /\ pvx # 0

\* C18 as stated: a frame callback is pending in every reachable state.
C18_LoopAlive == frameScheduled


\* ------------------------------------------------ the logo across the beam
MaxBeam == 4
\* centres of the logo's box, in hundredths of a pixel: 200 px under the
\* apex of the lamp at rest from the axis across the edge of the cone on the
\* right, half way to the edge on both sides, on the axis, beside the pivot
\* above the apex, just under the apex, and at the far end of the beam
BeamSpots ==
    { << ApexX(0) + k, ApexY(0) + 20003 >> : k \in 9415 .. 9419 }
    \cup { << ApexX(0) + 5000, ApexY(0) + 20003 >>,
           << ApexX(0) - 5000, ApexY(0) + 20003 >>,
           LogoHome,
           << ApexX(0) + 3000, Cpx * (PivotY + 100) >>,
           << ApexX(0) + 100, ApexY(0) + 800 >>,
           << ApexX(0), ApexY(0) + scaledBeamMax + 10 >> }

InitBeam ==
    /\ InitBase /\ InitRipple("none") /\ hasAC = TRUE
    /\ theta \in { 0, 30000 }
    /\ \E spot \in BeamSpots : InitLogo(spot)

NextBeam ==
    \/ \E r \in CalmRnd : steps < MaxBeam /\ Frame(16, r, TRUE, FALSE)
    \/ steps < MaxBeam /\ PointerDown(PtrGap, PivotX + 70, "ok", TRUE)
    \/ \E p \in MovePos : steps < MaxBeam /\ PointerMove(PtrGap, p, TRUE)
    \/ steps < MaxBeam /\ EndGrab(PtrGap)

SpecBeam == InitBeam /\ [][NextBeam]_vars

C14_MirrorSame ==
    vis = Visibility(beamAlong, PerpOf(0 - beamCross), anx,
                     lastT < blackoutUntil, lastT).val

\* C14 witness: a frame has lit a logo that sits to one side of the axis,
\* part of the way to the edge of the cone
C14_Witness ==
    /\ op = "frame"
    /\ beamCross < 0 - 10 * Cpx
    /\ vis > 1000 /\ vis < 7000

\* ------------------------------------------------- the lamp some time on
MaxHold == 5
\* state.anx some time into a visit: calm, and after the pointer has stayed
\* by the bulb
HoldAnx == { 1500, 9000 }
\* draws of a frame: a blackout draw that succeeds with the shortest and with
\* the longest length, and one that fails
HoldRnd == { << 50, 0, -3000, 6000, 7000, -4000 >>,
             << 50, Scale - 1, -3000, 6000, 7000, -4000 >>,
             << 5000, 0, -3000, 6000, 7000, -4000 >> }

\* the logo under the lamp, and beside the pivot out of the beam
HoldSpots == { LogoHome, << ApexX(0) + 3000, Cpx * (PivotY + 100) >> }

InitHold ==
    /\ InitLamp /\ InitRipple("none") /\ hasAC = TRUE
    /\ theta = 0
    /\ anx \in HoldAnx
    /\ \E spot \in HoldSpots : InitLogo(spot)

NextHold ==
    \/ \E r \in HoldRnd : steps < MaxHold /\ Frame(40, r, TRUE, FALSE)
    \/ steps < MaxHold /\ PointerDown(PtrGap, PivotX + 70, "ok", TRUE)
    \/ steps < MaxHold /\ EndGrab(PtrGap)

SpecHold == InitHold /\ [][NextHold]_vars

\* C12: the logo's jitter is 0 whenever vis <= 0.05, state.anx <= 0.2 or a
\* blackout is on; a jitter of an earlier frame is never kept or faded out.
C12_JitterOff ==
    (vis <= 500 \/ anx <= 2000 \/ lastT < blackoutUntil)
    => logoJx = 0 /\ logoJy = 0

\* C12 witness: a frame under a blackout finds the logo lit and the lamp
\* anxious enough to jitter, and leaves the jitter at 0
C12_Witness ==
    /\ op = "frame"
    /\ lastT < blackoutUntil
    /\ vis > 500 /\ anx > 2000
    /\ logoJx = 0 /\ logoJy = 0

\* C13: under a blackout vis is at most 0.08 times the vis the same frame
\* would give without the blackout (same angle, geometry, anx and t).
C13_BlackoutDims ==
    lastT < blackoutUntil
    => 100 * vis <= 8 * Visibility(beamAlong, PerpOf(beamCross), anx,
                                   FALSE, lastT).val

\* C13 witness: a frame under a blackout has lit a logo on the beam's axis
C13_Witness ==
    /\ op = "frame"
    /\ lastT < blackoutUntil
    /\ beamCross = 0
    /\ vis > 500

\* C16: what a frame computes for the logo and hands to audioTick is
\* computed from the state.anx and the blackout that the same frame has
\* written: vis from the new anx and blackoutUntil, the hum's volume and
\* pitch from the new anx and blackout.
C16_SameFrameMood ==
    /\ vis = Visibility(beamAlong, PerpOf(beamCross), anx,
                        lastT < blackoutUntil, lastT).val
    /\ (op = "frame" /\ audioStarted /\ audio # 0)
       => /\ masterTarget = audioTick(anx, lastT < blackoutUntil, TRUE)[2]
          /\ oscFreqTarget = audioTick(anx, lastT < blackoutUntil, TRUE)[3]

\* C16 witness: the frame that starts a blackout, with the hum running, has
\* already dimmed the logo
C16_Witness ==
    /\ op = "frame"
    /\ audioStarted /\ audio # 0
    /\ blackoutUntil >= lastT + 70
    /\ vis > 0 /\ vis < 1000

\* C20: a frame at t changes state.blackoutUntil only when no blackout is on
\* (blackoutUntil < t) and state.anx > 0.68, and then to a value in
\* [t + 70, t + 210]; while a blackout is on it is unchanged; it never
\* decreases, and nothing but a frame changes it.
C20_BlackoutRule ==
    [][ /\ blackoutUntil' >= blackoutUntil
        /\ blackoutUntil' # blackoutUntil
           => /\ op' = "frame"
              /\ blackoutUntil < lastT'
              /\ anx' > 6800
              /\ blackoutUntil' >= lastT' + 70
              /\ blackoutUntil' <= lastT' + 210
        /\ (op' = "frame" /\ lastT' <= blackoutUntil)
           => blackoutUntil' = blackoutUntil ]_vars

\* C20 witness: a frame inside a blackout that an earlier frame started
C20_Witness ==
    /\ op = "frame"
    /\ lastT < blackoutUntil
    /\ blackoutUntil < lastT + 70

\* ------------------------------------------------- the lamp left to settle
SettleFrames == 300
\* pointer positions out of reach of the bulb (beyond scaledNear)
SettleFar == { << PivotX + 300, PivotY + 150 >>, << PivotX - 320, PivotY + 40 >> }
\* ms before the n-th animation frame at 60 frames a second: 50 ms every
\* three frames
SixtiethMs(n) == IF n % 3 = 0 THEN 16 ELSE 17

InitSettle ==
    /\ InitBase /\ InitLogo(LogoHome) /\ InitRipple("none") /\ hasAC = TRUE
    /\ theta \in { 50000, 0 - 50000 }

\* the pointer goes out of reach, then the frames run
NextSettle ==
    \/ \E p \in SettleFar : steps = 0 /\ PointerMove(0, p, FALSE)
    \/ \E r \in CalmRnd :
          /\ steps >= 1 /\ steps < SettleFrames + 1
          /\ Frame(SixtiethMs(steps), r, TRUE, FALSE)

SpecSettle == InitSettle /\ [][NextSettle]_vars

\* C19: let go at theta = 0.05 (or -0.05) with omega = 0 and the pointer out
\* of reach, the lamp has |theta| < 0.01 and |omega| < 0.01 after 300 frames
\* at 60 frames a second.
C19_Settles ==
    steps = SettleFrames + 1
    => Abs(theta) < 10000 /\ Abs(omega) < 10000

\* C19 witness: the 300th frame has run with the lamp free all along
C19_Witness ==
    /\ steps = SettleFrames + 1 /\ op = "frame"
    /\ ~grabbing
    /\ Abs(theta) < 10000 /\ Abs(omega) < 10000

\* ------------------------------------------------------ the lamp in the hand
\* C21: while grabbing is true a frame leaves theta and omega as they are;
\* during a grab theta changes only in the pointer-move handler and omega
\* only in the pointer-down, pointer-move and release handlers.
C21_GrabSuspendsPhysics ==
    [][ grabbing
          => /\ op' = "frame" => theta' = theta /\ omega' = omega
             /\ theta' # theta => op' = "pointermove"
             /\ omega' # omega
                  => op' \in { "pointerdown", "pointermove", "endGrab" } ]_vars

\* C21 witness: a frame has run over a held lamp that has speed and is off
\* the vertical, where the physics block would have moved it
C21_Witness ==
    /\ op = "frame" /\ grabbing
    /\ omega # 0 /\ theta # 0

MaxGrab == 3
\* e.clientX, e.clientY of a pointer-move around the pivot: below it on the
\* right and on the left, straight below, level with it on either side,
\* above it on either side, straight above, and on the pivot
AnglePos ==
    { << PivotX + 60, PivotY + 170 >>, << PivotX - 60, PivotY + 170 >>,
      << PivotX, PivotY + 120 >>,
      << PivotX + 90, PivotY >>, << PivotX - 90, PivotY >>,
      << PivotX + 40, PivotY - 50 >>, << PivotX - 40, PivotY - 50 >>,
      << PivotX, PivotY - 50 >>,
      << PivotX, PivotY >> }

InitGrab ==
    /\ InitBase /\ InitLogo(LogoHome) /\ InitRipple("none") /\ hasAC = TRUE
    /\ theta \in InitThetas

NextGrab ==
    \/ \E r \in CalmRnd : steps < MaxGrab /\ Frame(16, r, TRUE, FALSE)
    \/ steps < MaxGrab /\ PointerDown(PtrGap, PivotX + 70, "ok", TRUE)
    \/ \E p \in AnglePos : steps < MaxGrab /\ PointerMove(PtrGap, p, TRUE)
    \/ steps < MaxGrab /\ PointerMove(PtrGap, << PivotX + 300, PivotY + 150 >>, FALSE)
    \/ steps < MaxGrab /\ EndGrab(PtrGap)

SpecGrab == InitGrab /\ [][NextGrab]_vars

\* C22: a pointer-move handled during a grab (the handler stamps grabLastT)
\* leaves |theta| <= MAX, theta >= 0 when the pointer is at or right of the
\* pivot's x and theta <= 0 when it is left of it, wherever the pointer is;
\* a pointer-move with grabbing = false changes neither theta nor omega.
C22_AngleFollowsSide ==
    [][ op' = "pointermove"
          => /\ (grabbing /\ grabLastT' = now')
                  => /\ Abs(theta') <= MAX
                     /\ px' >= PivotX => theta' >= 0
                     /\ px' < PivotX => theta' <= 0
             /\ ~grabbing => theta' = theta /\ omega' = omega ]_vars

\* C22 witness: a grabbed pointer-move to a point above the pivot on its left
\* has put the lamp at -MAX
C22_Witness ==
    /\ op = "pointermove" /\ grabbing /\ grabLastT = now
    /\ py < PivotY /\ px < PivotX
    /\ theta = 0 - MAX

\* C23 as stated: when a grab is released with the pointer below the pivot
\* and moving horizontally to the right, the direction in which
\* angleFromPointer makes theta grow, the flick that endGrab adds to omega
\* is not negative.
C23_KickWithSwing ==
    [][ (/\ op' = "endGrab" /\ grabbing
         /\ py > PivotY
         /\ pvy = 0 /\ pvx > 0)
          => relKick' >= 0 ]_vars

\* C24: a pointer-up or pointer-cancel that reaches the hit region while
\* grabbing is false changes none of omega, theta, grabbing and
\* state.spikeUntil: the release kick is applied once per grab.
C24_IdleReleaseNoop ==
    [][ (op' = "endGrab" /\ ~grabbing)
          => /\ omega' = omega /\ theta' = theta
             /\ grabbing' = grabbing /\ spikeUntil' = spikeUntil ]_vars

\* C24 witness: a release has arrived after the grab was over (spikeUntil is
\* not the now + 180 a real release writes) with the lamp in motion
C24_Witness ==
    /\ op = "endGrab" /\ ~grabbing
    /\ spikeUntil > 0 /\ spikeUntil # now + 180
    /\ omega # 0

\* ------------------------------------------------ the dust and its switch
MaxDust == 5

InitDust ==
    /\ InitBase /\ InitLogo(LogoHome) /\ theta = 30000 /\ hasAC = TRUE
    /\ \E pref \in { "none", "0", "1" } : InitRipple(pref)

NextDust ==
    \/ steps < MaxDust /\ RippleChange
    \/ \E rn \in DustRnd : steps < MaxDust /\ DustDraw(rn)
    \/ \E r \in CalmRnd : steps < MaxDust /\ Frame(40, r, TRUE, FALSE)

SpecDust == InitDust /\ [][NextDust]_vars

\* C25: at setup state.rippleOff tells whether the stored preference is "1",
\* and it always equals the checkbox; a draw() that gets past its 60 Hz
\* throttle while state.rippleOff is true leaves glitchFrames, the particle
\* and --dustOp as they are and leaves a canvas without tearing, scanlines
\* or blocks.
C25_RippleOffOnlyClears ==
    /\ rippleOff = (storedPref = "1")
    /\ [](rippleOff = cbChecked)
    /\ [][ (op' = "draw" /\ rippleOff /\ now - dustLast >= 17)
              => /\ glitchFrames' = glitchFrames
                 /\ ptX' = ptX /\ ptY' = ptY
                 /\ dustOp' = dustOp
                 /\ ~tearing' ]_vars

\* C25 witness: with the ripple switched off in the middle of a glitch
\* burst, a draw has run and left the burst's remaining frames pending
C25_Witness ==
    /\ op = "draw" /\ rippleOff /\ dustLast = now
    /\ glitchFrames > 0 /\ ~tearing

\* ------------------------------------------------------------- the doors
InitDoors ==
    InitBase /\ InitLogo(LogoHome) /\ InitRipple("none") /\ theta = 30000
      /\ hasAC = TRUE

NextDoors ==
    \/ \E d \in Doors : steps < MaxSteps /\ DoorTouch(d)
    \/ \E d \in Doors \cup { 0 } : steps < MaxSteps /\ DocClick(d)
    \/ \E h \in BOOLEAN : steps < MaxSteps /\ DoorHover(h)
    \/ \E rj \in DoorRnd : steps < MaxSteps /\ DoorStep(rj)

SpecDoors == InitDoors /\ [][NextDoors]_vars

\* C26: at most one door is open at any time; a touch on a closed door is
\* prevented and leaves that door the only open one, a touch on the open
\* door is not prevented and changes nothing, and a click outside every
\* door leaves no door open.
C26_OneDoorOpen ==
    /\ [](Cardinality(doorOpen) <= 1)
    /\ [][ /\ (op' = "touch" /\ tapTarget' \notin doorOpen)
                => tapPrevented' /\ doorOpen' = { tapTarget' }
           /\ (op' = "touch" /\ tapTarget' \in doorOpen)
                => ~tapPrevented' /\ doorOpen' = doorOpen
           /\ (op' = "click" /\ tapTarget' = 0) => doorOpen' = {}
           /\ (op' = "click" /\ tapTarget' # 0) => doorOpen' = doorOpen ]_vars

\* C26 witness: the third touch in a row has landed on a closed door and
\* left it the only open one
C26_Witness ==
    /\ op = "touch" /\ tapPrevented /\ steps >= 3
    /\ doorOpen = { tapTarget } /\ tapTarget = 3

\* ------------------------------------------------- bots page: case dialog
\* the delay of closeCase's setTimeout, in ms
FALLBACK_MS == 240

\* the steps the page's clock advances by, in ms
TickSteps == { 60, 120 }

\* dialogs opened in one run
MaxOpens == 3

\* a close request is known by the number of the dialog it was made for
Requests == 1 .. MaxOpens

\* a handler of the bots page ran
CaseStep(name) ==
    /\ op' = name
    /\ UNCHANGED << steps, lampPage, prefersReduce, deckVars >>

\* the smallest member of a set of requests: listeners run in the order
\* they were registered
First(S) == CHOOSE x \in S : \A y \in S : x <= y

\* finishClose of request id; pend: an animationcancel event of the dialog
\* waits for dispatch afterwards (removing the class closing, or hiding the
\* dialog, cancels an animation that is under way)
FinishClose(id, pend) ==
    /\ closingClass' = FALSE
    /\ dlgOpen' = FALSE
    /\ isClosing' = FALSE
    /\ closer' = IF dlgOpen THEN id ELSE closer
    /\ anim' = "none"
    /\ cancelPending' = pend

\* openCase(key); known: CASES has the key
OpenCase(known) ==
    /\ ~dlgOpen
    /\ dlgInstance < MaxOpens
    /\ CaseStep("openCase")
    /\ IF known
       THEN /\ isClosing' = FALSE
            /\ closingClass' = FALSE
            /\ dlgOpen' = TRUE
            /\ dlgInstance' = dlgInstance + 1
       ELSE UNCHANGED << isClosing, closingClass, dlgOpen, dlgInstance >>
    /\ UNCHANGED << endL, cancelL, timers, anim, cancelPending, closer >>

\* closeCase that arms no fallback timer
CloseCase_NoTimer(a) ==
    /\ CaseStep("closeCase")
    /\ IF ~dlgOpen \/ isClosing
       THEN UNCHANGED << dlgOpen, dlgInstance, isClosing, closingClass, endL,
                         cancelL, timers, anim, cancelPending, closer >>
       ELSE IF prefersReduce
       THEN /\ dlgOpen' = FALSE
            /\ closer' = dlgInstance
            /\ UNCHANGED << dlgInstance, isClosing, closingClass, endL,
                            cancelL, timers, anim, cancelPending >>
       ELSE /\ isClosing' = TRUE
            /\ closingClass' = TRUE
            /\ anim' = a
            /\ endL' = endL \cup { dlgInstance }
            /\ cancelL' = cancelL \cup { dlgInstance }
            /\ UNCHANGED << dlgOpen, dlgInstance, cancelPending, closer, timers >>

\* closeCase(), from the close and OK buttons, the cancel event, a click
\* on the backdrop and the Escape key; a: the style sheet gives the class
\* closing an animation ("running") or not ("none")
CloseCase(a) ==
    /\ CaseStep("closeCase")
    /\ IF ~dlgOpen \/ isClosing
       THEN UNCHANGED << dlgOpen, dlgInstance, isClosing, closingClass, endL,
                         cancelL, timers, anim, cancelPending, closer >>
       ELSE IF prefersReduce
       THEN /\ dlgOpen' = FALSE
            /\ closer' = dlgInstance
            /\ UNCHANGED << dlgInstance, isClosing, closingClass, endL,
                            cancelL, timers, anim, cancelPending >>
       ELSE /\ isClosing' = TRUE
            /\ closingClass' = TRUE
            /\ anim' = a
            /\ endL' = endL \cup { dlgInstance }
            /\ cancelL' = cancelL \cup { dlgInstance }
            /\ timers' = timers \cup { << dlgInstance, FALLBACK_MS >> }
            /\ UNCHANGED << dlgOpen, dlgInstance, cancelPending, closer >>

\* the closing animation ends: animationend is dispatched at the dialog and
\* every registered onEnd runs once
AnimEnd ==
    /\ anim = "running"
    /\ CaseStep("animationend")
    /\ endL' = {}
    /\ IF endL # {}
       THEN FinishClose(First(endL), cancelPending)
       ELSE /\ anim' = "none"
            /\ UNCHANGED << dlgOpen, isClosing, closingClass, cancelPending,
                            closer >>
    /\ UNCHANGED << dlgInstance, cancelL, timers >>

\* the animationcancel event of the dialog is dispatched
AnimCancel ==
    /\ cancelPending
    /\ CaseStep("animationcancel")
    /\ cancelL' = {}
    /\ IF cancelL # {}
       THEN FinishClose(First(cancelL), anim = "running")
       ELSE /\ cancelPending' = FALSE
            /\ UNCHANGED << dlgOpen, isClosing, closingClass, anim, closer >>
    /\ UNCHANGED << dlgInstance, endL, timers >>

\* an animation event of an element inside the dialog bubbles to it: onEnd
\* returns at once, the once-listeners are used up
BubbledAnim(kind) ==
    /\ dlgOpen
    /\ CaseStep("bubbled")
    /\ endL' = IF kind = "animationend" THEN {} ELSE endL
    /\ cancelL' = IF kind = "animationcancel" THEN {} ELSE cancelL
    /\ UNCHANGED << dlgOpen, dlgInstance, isClosing, closingClass, timers,
                    anim, cancelPending, closer >>

\* the callback of a fallback timer runs
TimerFire(tm) ==
    /\ tm \in timers
    /\ tm[2] = 0
    /\ CaseStep("timer")
    /\ timers' = timers \ { tm }
    /\ IF isClosing
       THEN FinishClose(tm[1], cancelPending \/ anim = "running")
       ELSE UNCHANGED << dlgOpen, isClosing, closingClass, anim,
                         cancelPending, closer >>
    /\ UNCHANGED << dlgInstance, endL, cancelL >>

\* d ms pass on the bots page; a timer that is due runs first
CaseTick(d) ==
    /\ \A tm \in timers : tm[2] >= d
    /\ CaseStep("caseTick")
    /\ timers' = { << tm[1], tm[2] - d >> : tm \in timers }
    /\ UNCHANGED << dlgOpen, dlgInstance, isClosing, closingClass, endL,
                    cancelL, anim, cancelPending, closer >>

\* the lamp page at rest
LampIdle ==
    /\ InitLampPage /\ anx = 0 /\ InitLogo(LogoHome) /\ InitRipple("none")
    /\ theta = 30000 /\ hasAC = TRUE

InitCases ==
    LampIdle /\ DeckSetup(TRUE) /\ \E reduce \in BOOLEAN : CasesSetup(reduce)

NextCases ==
    \/ \E known \in BOOLEAN : OpenCase(known)
    \/ \E a \in { "none", "running" } : CloseCase(a)
    \/ AnimEnd
    \/ AnimCancel
    \/ \E kind \in { "animationend", "animationcancel" } : BubbledAnim(kind)
    \/ \E r \in Requests : TimerFire(<< r, 0 >>)
    \/ \E d \in TickSteps : CaseTick(d)

SpecCases == InitCases /\ [][NextCases]_vars

\* the event loop runs a timer that is due, and time passes
SpecCasesFair ==
    /\ SpecCases
    /\ WF_vars(\E d \in TickSteps : CaseTick(d))
    /\ WF_vars(\E r \in Requests : TimerFire(<< r, 0 >>))

C28_OwnRequestCloses ==
    [][ /\ (dlgOpen /\ ~dlgOpen') => closer' = dlgInstance
        /\ (dlgOpen /\ ~isClosing /\ ~dlgOpen') => op' = "closeCase" ]_vars

\* ------------------------------------------------------ music page: tracks
\* TRACKS.length
NumTracks == 3

\* handlers run on the music page in one run
MaxDeck == 6

\* the indices i for which TRACKS[i] is defined, in halves
ValidIndex == { 2 * k : k \in 0 .. NumTracks - 1 }

\* the values of data-i tried, in halves: -4, -1, 0, 1, 1.5, 2 and 7
DataI == { -8, -2, 0, 2, 3, 4, 14 }

\* JavaScript's a % b for b > 0: the remainder has the sign of a
JsRem(a, b) == IF a >= 0 THEN a % b ELSE 0 - ((0 - a) % b)

\* the index setTrack(i) stores, i and the result in halves
WrapIndex(i) == JsRem(i + 2 * NumTracks, 2 * NumTracks)

\* a handler of the music page ran
DeckStep(name) ==
    /\ steps' = steps + 1
    /\ op' = name
    /\ UNCHANGED << lampPage, caseVars, canWebAudio >>

\* ensureAnalyser: AC.state afterwards; ac is the state of a context that
\* is built now, "none" when building it throws
EnsureAnalyser(ac) ==
    IF canWebAudio /\ acState = "none" THEN ac ELSE acState

\* audio.play() with audio.paused = p: the element leaves the paused state,
\* a "play" event is queued if it was paused, the promise is pending
AudioPlay(p, waiting) ==
    /\ paused' = FALSE
    /\ playEvents' = playEvents + (IF p THEN 1 ELSE 0)
    /\ awaitStart' = waiting + 1

\* play() up to its first await; p and waiting are audio.paused and the
\* pending promises when it is called
Play(ac, p, waiting) ==
    /\ acState' = EnsureAnalyser(ac)
    /\ quiet' = FALSE
    /\ IF EnsureAnalyser(ac) = "suspended"
       THEN /\ awaitResume' = awaitResume + 1
            /\ paused' = p
            /\ awaitStart' = waiting
            /\ UNCHANGED playEvents
       ELSE /\ AudioPlay(p, waiting)
            /\ UNCHANGED awaitResume

startLoop ==
    IF raf # 0
    THEN UNCHANGED loopVars
    ELSE /\ raf' = rafNext
         /\ frames' = frames \cup { rafNext }
         /\ rafNext' = rafNext + 1

stopLoop ==
    IF raf = 0
    THEN UNCHANGED loopVars
    ELSE /\ frames' = frames \ { raf }
         /\ raf' = 0
         /\ UNCHANGED rafNext

\* setTrack(i, { autoplay: !audio.paused }), i in halves
setTrack(name, i, ac) ==
    /\ DeckStep(name)
    /\ index' = WrapIndex(i)
    /\ IF WrapIndex(i) \notin ValidIndex
       THEN /\ threw' = TRUE
            /\ UNCHANGED << deckTrack, srcTrack, acState, paused, started,
                            awaitResume, awaitStart, playEvents, quiet >>
       ELSE /\ threw' = FALSE
            /\ deckTrack' = WrapIndex(i)
            /\ srcTrack' = WrapIndex(i)
            /\ started' = FALSE
            /\ IF ~paused
               THEN Play(ac, TRUE, 0)
               ELSE /\ paused' = TRUE
                    /\ awaitStart' = 0
                    /\ UNCHANGED << acState, awaitResume, playEvents, quiet >>
    /\ UNCHANGED loopVars

\* click on the previous, the next button
PrevBtn(ac) == setTrack("prev", index - 2, ac)
NextBtn(ac) == setTrack("next", index + 2, ac)

\* click on a rack card whose data-i is the finite number d
RackCard(d, ac) == setTrack("card", d, ac)

\* click on the play button: togglePlay
PlayBtn(ac) ==
    /\ DeckStep("playBtn")
    /\ threw' = FALSE
    /\ IF paused
       THEN /\ Play(ac, TRUE, awaitStart)
            /\ UNCHANGED started
       ELSE /\ paused' = TRUE
            /\ awaitStart' = 0
            /\ started' = FALSE
            /\ UNCHANGED << acState, awaitResume, playEvents, quiet >>
    /\ UNCHANGED << index, deckTrack, srcTrack, loopVars >>

\* click on the stop button: stopAll(); stopLoop()
StopBtn ==
    /\ DeckStep("stopBtn")
    /\ threw' = FALSE
    /\ paused' = TRUE
    /\ awaitStart' = 0
    /\ started' = FALSE
    /\ stopLoop
    /\ quiet' = TRUE
    /\ UNCHANGED << index, deckTrack, srcTrack, acState, awaitResume,
                    playEvents >>

\* AC.resume() settles, ok: it resolved; every play() waiting for it goes
\* on to audio.play()
ResumeDone(ok) ==
    /\ awaitResume > 0
    /\ DeckStep("resumed")
    /\ acState' = IF ok THEN "running" ELSE acState
    /\ paused' = FALSE
    /\ playEvents' = playEvents + (IF paused THEN 1 ELSE 0)
    /\ awaitStart' = awaitStart + awaitResume
    /\ awaitResume' = 0
    /\ UNCHANGED << trackVars, started, loopVars, quiet >>

\* playback starts: the promises of audio.play() resolve and each play()
\* runs startLoop()
Started ==
    /\ awaitStart > 0 /\ ~paused
    /\ DeckStep("started")
    /\ started' = TRUE
    /\ awaitStart' = 0
    /\ startLoop
    /\ UNCHANGED << trackVars, acState, paused, awaitResume, playEvents,
                    quiet >>

\* the file cannot be played: the promises of audio.play() reject
StartFailed ==
    /\ awaitStart > 0 /\ ~paused /\ ~started
    /\ DeckStep("startFailed")
    /\ awaitStart' = 0
    /\ UNCHANGED << trackVars, acState, paused, started, awaitResume,
                    playEvents, loopVars, quiet >>

\* a queued "play" event is dispatched: startLoop
PlayEvent ==
    /\ playEvents > 0
    /\ DeckStep("playEvent")
    /\ playEvents' = playEvents - 1
    /\ startLoop
    /\ UNCHANGED << trackVars, acState, paused, started, awaitResume,
                    awaitStart, quiet >>

\* the track reaches its end: "ended" is dispatched; p is audio.paused
\* afterwards (a browser may or may not pause the element at the end)
Ended(p) ==
    /\ started /\ ~paused
    /\ DeckStep("ended")
    /\ started' = FALSE
    /\ paused' = p
    /\ stopLoop
    /\ quiet' = TRUE
    /\ UNCHANGED << trackVars, acState, awaitResume, awaitStart, playEvents >>

\* the browser runs the animation frame callback with handle id: tick
Tick(id) ==
    /\ id \in frames
    /\ DeckStep("tick")
    /\ raf' = rafNext
    /\ frames' = (frames \ { id }) \cup { rafNext }
    /\ rafNext' = rafNext + 1
    /\ UNCHANGED << trackVars, acState, paused, started, awaitResume,
                    awaitStart, playEvents, quiet >>

\* the states a context can be built in
NewAC == { "none", "suspended", "running" }

InitDeck ==
    LampIdle /\ CasesSetup(FALSE) /\ \E web \in BOOLEAN : DeckSetup(web)

NextDeck ==
    \/ \E ac \in NewAC : steps < MaxDeck /\ PlayBtn(ac)
    \/ steps < MaxDeck /\ StopBtn
    \/ \E ac \in NewAC : steps < MaxDeck /\ PrevBtn(ac)
    \/ \E ac \in NewAC : steps < MaxDeck /\ NextBtn(ac)
    \/ \E d \in DataI, ac \in NewAC : steps < MaxDeck /\ RackCard(d, ac)
    \/ \E ok \in BOOLEAN : steps < MaxDeck /\ ResumeDone(ok)
    \/ steps < MaxDeck /\ Started
    \/ steps < MaxDeck /\ StartFailed
    \/ steps < MaxDeck /\ PlayEvent
    \/ \E p \in BOOLEAN : steps < MaxDeck /\ Ended(p)
    \/ \E id \in 1 .. MaxDeck : steps < MaxDeck /\ Tick(id)

SpecDeck == InitDeck /\ [][NextDeck]_vars

\* C29: after any choice of previous, next and rack-card clicks, index is a
\* whole number from 0 up to TRACKS.length - 1, so that TRACKS[index] is
\* defined; previous at the first track goes to the last one, next at the
\* last track goes to the first.
C29_IndexInRange ==
    /\ [](index \in ValidIndex)
    /\ [][ /\ (op' = "prev" /\ index = 0) => index' = 2 * (NumTracks - 1)
           /\ (op' = "next" /\ index = 2 * (NumTracks - 1)) => index' = 0 ]_vars

\* C30: at most one tick is pending, raf is non-zero exactly while a tick is
\* scheduled, startLoop on a running loop schedules nothing, and after the
\* stop button or "ended" no tick runs before play is asked for again.
C30_OneLoopStopsOnStop ==
    /\ [](/\ Cardinality(frames) <= 1
          /\ (raf # 0) = (frames # {})
          /\ raf # 0 => frames = { raf })
    /\ [][ /\ (raf # 0 /\ op' \in { "started", "playEvent" })
                => frames' = frames /\ raf' = raf
           /\ op' = "tick" => ~quiet ]_vars
====
